---- MODULE Spec2Model ----
(***************************************************************************)
(* Model of the OrchestraBuilder playback / synth-lifecycle core.          *)
(*                                                                         *)
(* React state (tracks, currentTrackId, isPlaying, bpm, currentStep), the  *)
(* two refs (synthsRef, sequencerRef), the Tone.js Transport and audio     *)
(* context are the variables.  Every event handler is one action; the      *)
(* passive effects scheduled by a commit are run by RunEffects, which may  *)
(* be preceded by a transport tick but by no other handler.                *)
(***************************************************************************)
EXTENDS Integers, Sequences, FiniteSets, TLC

\* ------------------------------------------------------------------ bounds
MaxTracks == 2          \* addTrack is not offered beyond this many tracks
MaxNotes == 1           \* drops are offered while the score holds fewer notes
MaxPending == 2         \* play clicks that may wait on Tone.start() at once

\* ------------------------------------------------------- program constants
TotalSteps == 16
DefaultBpm == 120
MinBpm == 60
MaxBpm == 200

Digit == <<"0", "1", "2", "3", "4", "5", "6", "7", "8", "9">>

\* Number.prototype.toString() for a non-negative integer
RECURSIVE ToStr(_)
ToStr(n) == IF n < 10 THEN Digit[n + 1]
            ELSE ToStr(n \div 10) \o Digit[(n % 10) + 1]

\* inputs offered to the handlers
Pitches == {"C4"}
NoteSteps == {0, 1}
Durations == {"quarter", "half"}
\* durations offered to a toggle: a valid one and a value outside
\* NoteDuration
DurationInputs == {"quarter", "4"}
Instruments == {"piano", "violin"}
Volumes == {-10}
BpmInputs == {MinBpm, MaxBpm}
\* steps a drop position may compute: before the staff, on it, past its end
DropSteps == {-1, 0, TotalSteps}
\* ids a caller may pass: every id addTrack can issue and one it cannot
IdInputs == {ToStr(i) : i \in 1..(MaxTracks + 1)}
\* Object.values() visits integer-like keys in ascending numeric order
KeyOrder == [i \in 1..(MaxTracks + 1) |-> ToStr(i)]

\* ------------------------------------------------------------------- state
VARIABLES
    tracks,          \* useState<Track[]>
    currentTrackId,  \* useState("1")
    isPlaying,       \* useState(false)
    bpm,             \* useState(120)
    currentStep,     \* useState(0)
    synthsRef,       \* synthsRef.current : id -> voice
    sequencerRef,    \* sequencerRef.current : <<>> (null) or <<sequence>>
    transport,       \* Tone.Transport
    ctxState,        \* Tone.context.state
    pending,         \* togglePlayback calls suspended in `await Tone.start()`
    dirty,           \* effects scheduled by the last commit, not yet run
    mounted,         \* FALSE once the component has been unmounted
    lastCall,        \* the handler / callback that ran last
    lastOps          \* the Tone.js calls it made, in order

vars == <<tracks, currentTrackId, isPlaying, bpm, currentStep, synthsRef,
          sequencerRef, transport, ctxState, pending, dirty, mounted,
          lastCall, lastOps>>

\* ----------------------------------------------------------------- helpers
Call(op, id) == [op |-> op, id |-> id, step |-> 0, pitch |-> "", duration |-> ""]
NoteCall(op, id, s, p, d) == [op |-> op, id |-> id, step |-> s, pitch |-> p, duration |-> d]

\* one Tone.js call on the voice registered under id
\* `dead` records whether the voice had already been disposed when called
\* `arg` is the pitch of a trigger or the family of an allocation
Op(op, id, dead) == [op |-> op, id |-> id, arg |-> "", duration |-> "", dead |-> dead]
TriggerOp(id, p, d, dead) == [op |-> "triggerAttackRelease", id |-> id, arg |-> p,
                              duration |-> d, dead |-> dead]
NewOp(id, family) == [op |-> "new", id |-> id, arg |-> family, duration |-> "",
                      dead |-> FALSE]

\* mutant of NewTrack: the new track copies a non-default volume
NewTrackLoud(id) == [id |-> id, instrument |-> "piano", notes |-> <<>>,
                     volume |-> -10, muted |-> FALSE]

\* the track literal of useState and of addTrack
NewTrack(id) == [id |-> id, instrument |-> "piano", notes |-> <<>>,
                 volume |-> 0, muted |-> FALSE]

TrackIds(trs) == {trs[i].id : i \in 1..Len(trs)}

\* Array.prototype.find: <<>> for undefined, else the first match
Find(trs, id) ==
    LET hits == {i \in 1..Len(trs) : trs[i].id = id}
    IN  IF hits = {} THEN <<>>
        ELSE <<trs[CHOOSE i \in hits : \A j \in hits : i <= j]>>

\* the switch of the reconcile effect
EffectFamily(instrument) ==
    CASE instrument \in {"piano", "harpsichord", "organ", "synthesizer"} -> "Synth"
      [] instrument \in {"violin", "viola", "cello", "guitar", "harp"} -> "AMSynth"
      [] instrument \in {"flute", "clarinet", "oboe", "bassoon"} -> "FMSynth"
      [] instrument \in {"trumpet", "trombone", "french horn", "tuba"} -> "MonoSynth"
      [] instrument \in {"drums", "timpani", "xylophone", "marimba"} -> "MembraneSynth"
      [] OTHER -> "Synth"

\* the instruments the two switches list, and the constructors they choose
InstrumentNames ==
    {"piano", "harpsichord", "organ", "synthesizer",
     "violin", "viola", "cello", "guitar", "harp",
     "flute", "clarinet", "oboe", "bassoon",
     "trumpet", "trombone", "french horn", "tuba",
     "drums", "timpani", "xylophone", "marimba"}
VoiceFamilies == {"Synth", "AMSynth", "FMSynth", "MonoSynth", "MembraneSynth"}

\* mutant of ChangeFamily: the handler always builds the generic voice
ChangeFamilyAllGeneric(instrument) == "Synth"

\* the switch of updateTrackInstrument
ChangeFamily(instrument) ==
    CASE instrument \in {"piano", "harpsichord", "organ", "synthesizer"} -> "Synth"
      [] instrument \in {"violin", "viola", "cello", "guitar", "harp"} -> "AMSynth"
      [] instrument \in {"flute", "clarinet", "oboe", "bassoon"} -> "FMSynth"
      [] instrument \in {"trumpet", "trombone", "french horn", "tuba"} -> "MonoSynth"
      [] instrument \in {"drums", "timpani", "xylophone", "marimba"} -> "MembraneSynth"
      [] OTHER -> "Synth"

\* new Tone.PolySynth(family).toDestination()
NewVoice(family, volume) ==
    [family |-> family, volume |-> volume, disposed |-> FALSE, sounding |-> FALSE]

Put(reg, id, v) == [k \in DOMAIN reg \cup {id} |-> IF k = id THEN v ELSE reg[k]]
Delete(reg, id) == [k \in DOMAIN reg \ {id} |-> reg[k]]
EmptyReg == [k \in {} |-> NewVoice("Synth", 0)]

\* synth.releaseAll() / synth.dispose() on a voice
Released(v) == [v EXCEPT !.sounding = FALSE]
Disposed(v) == [v EXCEPT !.disposed = TRUE, !.sounding = FALSE]

\* the keys of a registry in Object.values() order
Keys(reg) == SelectSeq(KeyOrder, LAMBDA k : k \in DOMAIN reg)

\* the switch of the tick callback
ToneDuration(d) ==
    CASE d = "whole" -> "1n"
      [] d = "half" -> "2n"
      [] d = "quarter" -> "4n"
      [] d = "eighth" -> "8n"
      [] d = "sixteenth" -> "16n"
      [] OTHER -> "8n"

\* ------------------------------------------------------------------- Init
\* the state after the first render and its mount effects
Init ==
    /\ tracks = <<NewTrack("1")>>
    /\ currentTrackId = "1"
    /\ isPlaying = FALSE
    /\ bpm = DefaultBpm
    /\ currentStep = 0
    /\ synthsRef = Put(EmptyReg, "1", NewVoice(EffectFamily("piano"), 0))
    /\ sequencerRef = <<>>
    /\ transport = [state |-> "stopped", position |-> 0, loop |-> FALSE,
                    loopEnd |-> 0, bpm |-> DefaultBpm]
    /\ ctxState = "suspended"
    /\ pending = <<>>
    /\ dirty = {}
    /\ mounted = TRUE
    /\ lastCall = Call("mount", "")
    /\ lastOps = <<>>

\* a handler can run: the component is mounted, the effects of the previous
\* commit have been flushed, and no resumed togglePlayback is mid-drain
Draining == ctxState = "running" /\ pending # <<>>
Ready == mounted /\ dirty = {} /\ ~Draining

\* ------------------------------------------------- track list mutations
addTrack ==
    /\ Ready
    /\ Len(tracks) < MaxTracks
    /\ LET newTrackId == ToStr(Len(tracks) + 1)
       IN  /\ tracks' = Append(tracks, NewTrack(newTrackId))
           /\ currentTrackId' = newTrackId
    /\ dirty' = dirty \cup {"tracks"}
    /\ lastCall' = Call("addTrack", "")
    /\ lastOps' = <<>>
    /\ UNCHANGED <<isPlaying, bpm, currentStep, synthsRef, sequencerRef,
                   transport, ctxState, pending, mounted>>

\* releaseAll(); dispose(); delete synthsRef.current[id]
DisposeVoice(reg, id) ==
    IF id \in DOMAIN reg
    THEN Delete([reg EXCEPT ![id] = Disposed(Released(@))], id)
    ELSE reg

DisposeVoiceOps(reg, id) ==
    IF id \in DOMAIN reg
    THEN <<Op("releaseAll", id, reg[id].disposed), Op("dispose", id, reg[id].disposed),
           Op("delete", id, FALSE)>>
    ELSE <<>>

\* mutant of IsLastTrack: the guard lets the last track go
IsLastTrackOffByOne(trs) == Len(trs) < 1

\* if (tracks.length <= 1) return
IsLastTrack(trs) == Len(trs) <= 1

removeTrack(id) ==
    /\ Ready
    /\ lastCall' = Call("removeTrack", id)
    /\ IF IsLastTrack(tracks)
       THEN /\ lastOps' = <<>>
            /\ UNCHANGED <<tracks, currentTrackId, synthsRef, dirty>>
       ELSE LET remainingTracks == SelectSeq(tracks, LAMBDA t : t.id # id)
            IN  /\ lastOps' = DisposeVoiceOps(synthsRef, id)
                /\ synthsRef' = DisposeVoice(synthsRef, id)
                /\ tracks' = remainingTracks
                /\ dirty' = dirty \cup {"tracks"}
                \* remainingTracks[0].id throws on an empty list, after
                \* setTracks has already been queued
                /\ currentTrackId' =
                      IF currentTrackId = id /\ remainingTracks # <<>>
                      THEN remainingTracks[1].id
                      ELSE currentTrackId
    /\ UNCHANGED <<isPlaying, bpm, currentStep, sequencerRef, transport,
                   ctxState, pending, mounted>>

setCurrentTrackId(id) ==
    /\ Ready
    /\ currentTrackId' = id
    /\ lastCall' = Call("setCurrentTrackId", id)
    /\ lastOps' = <<>>
    /\ UNCHANGED <<tracks, isPlaying, bpm, currentStep, synthsRef, sequencerRef,
                   transport, ctxState, pending, dirty, mounted>>

updateTrackInstrument(id, instrument) ==
    /\ Ready
    /\ LET track == Find(tracks, id)
           synth == NewVoice(ChangeFamily(instrument),
                             IF track # <<>> THEN track[1].volume ELSE 0)
       IN  /\ synthsRef' = Put(DisposeVoice(synthsRef, id), id, synth)
           /\ lastOps' = DisposeVoiceOps(synthsRef, id)
                           \o <<NewOp(id, synth.family)>>
    /\ tracks' = [i \in 1..Len(tracks) |->
                    IF tracks[i].id = id
                    THEN [tracks[i] EXCEPT !.instrument = instrument]
                    ELSE tracks[i]]
    /\ dirty' = dirty \cup {"tracks"}
    /\ lastCall' = [Call("updateTrackInstrument", id) EXCEPT !.pitch = instrument]
    /\ UNCHANGED <<currentTrackId, isPlaying, bpm, currentStep, sequencerRef,
                   transport, ctxState, pending, mounted>>

updateTrackVolume(id, volume) ==
    /\ Ready
    /\ tracks' = [i \in 1..Len(tracks) |->
                    IF tracks[i].id = id
                    THEN [tracks[i] EXCEPT !.volume = volume]
                    ELSE tracks[i]]
    /\ synthsRef' = IF id \in DOMAIN synthsRef
                    THEN [synthsRef EXCEPT ![id].volume = volume]
                    ELSE synthsRef
    /\ dirty' = dirty \cup {"tracks"}
    /\ lastCall' = [Call("updateTrackVolume", id) EXCEPT !.step = volume]
    /\ lastOps' = <<>>
    /\ UNCHANGED <<currentTrackId, isPlaying, bpm, currentStep, sequencerRef,
                   transport, ctxState, pending, mounted>>

toggleTrackMute(id) ==
    /\ Ready
    /\ tracks' = [i \in 1..Len(tracks) |->
                    IF tracks[i].id = id
                    THEN [tracks[i] EXCEPT !.muted = ~tracks[i].muted]
                    ELSE tracks[i]]
    /\ dirty' = dirty \cup {"tracks"}
    /\ lastCall' = Call("toggleTrackMute", id)
    /\ lastOps' = <<>>
    /\ UNCHANGED <<currentTrackId, isPlaying, bpm, currentStep, synthsRef,
                   sequencerRef, transport, ctxState, pending, mounted>>

\* mutant of NoteExists: only the first note is compared
NoteExistsFirstOnly(notes, step, pitch) ==
    Len(notes) > 0 /\ notes[1].step = step /\ notes[1].pitch = pitch

\* track.notes.some(note => note.step === step && note.pitch === pitch)
NoteExists(notes, step, pitch) ==
    \E k \in 1..Len(notes) : notes[k].step = step /\ notes[k].pitch = pitch

\* mutant of ToggledNotes: the removal filter lost its negation
ToggledNotesKeepsMatch(notes, noteExists, step, pitch, duration) ==
    IF noteExists
    THEN SelectSeq(notes, LAMBDA n : n.step = step /\ n.pitch = pitch)
    ELSE Append(notes, [step |-> step, pitch |-> pitch, duration |-> duration])

\* mutant of ToggledNotes: the removal filter also compares the duration
ToggledNotesMatchesDuration(notes, noteExists, step, pitch, duration) ==
    IF noteExists
    THEN SelectSeq(notes, LAMBDA n : ~(n.step = step /\ n.pitch = pitch
                                        /\ n.duration = duration))
    ELSE Append(notes, [step |-> step, pitch |-> pitch, duration |-> duration])

\* the notes of a track with id trackId after addNote's branch
ToggledNotes(notes, noteExists, step, pitch, duration) ==
    IF noteExists
    THEN SelectSeq(notes, LAMBDA n : ~(n.step = step /\ n.pitch = pitch))
    ELSE Append(notes, [step |-> step, pitch |-> pitch, duration |-> duration])

\* the array addNote passes to setTracks; the tracks themselves when it
\* returns early
AddNoteTracks(trs, trackId, step, pitch, duration) ==
    LET track == Find(trs, trackId)
    IN  IF track = <<>> THEN trs
        ELSE [i \in 1..Len(trs) |->
                IF trs[i].id = trackId
                THEN [trs[i] EXCEPT !.notes =
                        ToggledNotes(@, NoteExists(track[1].notes, step, pitch),
                                     step, pitch, duration)]
                ELSE trs[i]]

addNote(trackId, step, pitch, duration) ==
    /\ Ready
    /\ lastCall' = NoteCall("addNote", trackId, step, pitch, duration)
    /\ lastOps' = <<>>
    /\ tracks' = AddNoteTracks(tracks, trackId, step, pitch, duration)
    /\ dirty' = IF Find(tracks, trackId) = <<>> THEN dirty ELSE dirty \cup {"tracks"}
    /\ UNCHANGED <<currentTrackId, isPlaying, bpm, currentStep, synthsRef,
                   sequencerRef, transport, ctxState, pending, mounted>>

\* mutant of clearTrack: clearing a track also rewinds the step display
clearTrackRewinds(trackId) ==
    /\ Ready
    /\ tracks' = [i \in 1..Len(tracks) |->
                    IF tracks[i].id = trackId
                    THEN [tracks[i] EXCEPT !.notes = <<>>]
                    ELSE tracks[i]]
    /\ currentStep' = 0
    /\ dirty' = dirty \cup {"tracks"}
    /\ lastCall' = Call("clearTrack", trackId)
    /\ lastOps' = <<>>
    /\ UNCHANGED <<currentTrackId, isPlaying, bpm, synthsRef,
                   sequencerRef, transport, ctxState, pending, mounted>>

clearTrack(trackId) ==
    /\ Ready
    /\ tracks' = [i \in 1..Len(tracks) |->
                    IF tracks[i].id = trackId
                    THEN [tracks[i] EXCEPT !.notes = <<>>]
                    ELSE tracks[i]]
    /\ dirty' = dirty \cup {"tracks"}
    /\ lastCall' = Call("clearTrack", trackId)
    /\ lastOps' = <<>>
    /\ UNCHANGED <<currentTrackId, isPlaying, bpm, currentStep, synthsRef,
                   sequencerRef, transport, ctxState, pending, mounted>>

\* handleDrop of the staff: the step computed from the drop position reaches
\* onAddNote only when it lies on the staff
handleDrop(trackId, step, pitch, duration) ==
    IF step >= 0 /\ step < TotalSteps
    THEN addNote(trackId, step, pitch, duration)
    ELSE /\ Ready
         /\ lastCall' = NoteCall("handleDrop", trackId, step, pitch, duration)
         /\ lastOps' = <<>>
         /\ UNCHANGED <<tracks, currentTrackId, isPlaying, bpm, currentStep,
                        synthsRef, sequencerRef, transport, ctxState, pending,
                        dirty, mounted>>

\* ------------------------------------------------------ the staff's drop
\* TREBLE_CLEF_PITCHES and BASS_CLEF_PITCHES, top of the staff first
TREBLE_CLEF_PITCHES ==
    <<"C6", "B5", "A5", "G5", "F5", "E5", "D5", "C5", "B4", "A4", "G4",
      "F4", "E4", "D4", "C4", "B3", "A3", "G3", "F3", "E3", "D3", "C3">>
BASS_CLEF_PITCHES ==
    <<"E4", "D4", "C4", "B3", "A3", "G3", "F3", "E3", "D3", "C3", "B2",
      "A2", "G2", "F2", "E2", "D2", "C2">>

\* getInstrumentClef: "bass" when the instrument's name contains one of the
\* bass instruments' names; these are the names of the instrument switch,
\* and "bass" itself, that do
BassClefInstruments == {"cello", "tuba", "bassoon", "trombone", "bass"}
getInstrumentClef(instrument) ==
    IF instrument \in BassClefInstruments THEN "bass" ELSE "treble"

ClefPitches(clef) == IF clef = "treble" THEN TREBLE_CLEF_PITCHES ELSE BASS_CLEF_PITCHES

\* Math.floor(x / stepWidth) with stepWidth = width / totalSteps || 0, as
\* <<step>>; <<>> when the width is unknown (dims = <<>>) or 0: stepWidth is
\* then 0 and the quotient is NaN or an infinity
DropStep(x, dims) ==
    IF dims = <<>> \/ dims[1] = 0 THEN <<>>
    ELSE <<(TotalSteps * x) \div dims[1]>>

\* Math.round((y - 30) / 7.5), halves rounded up
PitchPosition(y) == (4 * (y - 30) + 15) \div 30

\* Math.min(Math.max(0, pitchPosition), length - 1)
PitchIndex(y, length) ==
    LET position == PitchPosition(y)
        atLeast0 == IF position > 0 THEN position ELSE 0
    IN  IF atLeast0 < length - 1 THEN atLeast0 ELSE length - 1

\* mutant of StepOnStaff: the step one past the last passes
StepOnStaffInclusive(step) == step # <<>> /\ step[1] >= 0 /\ step[1] <= TotalSteps

\* step >= 0 && step < totalSteps; false for NaN and the infinities
StepOnStaff(step) == step # <<>> /\ step[1] >= 0 /\ step[1] < TotalSteps

\* the drop event: the staff it lands on, its position relative to the
\* staff, the staff's recorded width and the "noteDuration" it carries
DropEvent(trackId, x, y, dims, dragged) ==
    [op |-> "drop", id |-> trackId, x |-> x, y |-> y, dims |-> dims,
     dragged |-> dragged]

\* handleDrop from the pointer position; onAddNote is addNote.  The staff's
\* own activeDuration is never set and stays "quarter".
handleDropAt(trackId, x, y, dims, dragged) ==
    LET duration == IF dragged # "" THEN dragged ELSE "quarter"
        step == DropStep(x, dims)
        track == Find(tracks, trackId)
        clef == IF track # <<>> THEN getInstrumentClef(track[1].instrument)
                ELSE "treble"
        list == ClefPitches(clef)
        pitch == list[PitchIndex(y, Len(list)) + 1]
    IN  /\ Ready
        /\ IF StepOnStaff(step)
           THEN /\ lastCall' = NoteCall("addNote", trackId, step[1], pitch, duration)
                /\ tracks' = AddNoteTracks(tracks, trackId, step[1], pitch, duration)
                /\ dirty' = IF track = <<>> THEN dirty ELSE dirty \cup {"tracks"}
           ELSE /\ lastCall' = Call("handleDrop", trackId)
                /\ UNCHANGED <<tracks, dirty>>
        /\ lastOps' = <<DropEvent(trackId, x, y, dims, dragged)>>
        /\ UNCHANGED <<currentTrackId, isPlaying, bpm, currentStep, synthsRef,
                       sequencerRef, transport, ctxState, pending, mounted>>

\* ------------------------------------------------------- passive effects
\* cleanup of the [tracks] effect: dispose every registered voice and the
\* sequence, then clear both refs
CleanupOps(reg, seqRef) ==
    [i \in 1..Len(Keys(reg)) |-> Op("dispose", Keys(reg)[i], reg[Keys(reg)[i]].disposed)]
      \o (IF seqRef # <<>> THEN <<Op("sequence.dispose", "", FALSE)>> ELSE <<>>)

\* mutant of CleanedRegistry: the voices are disposed but the ref is not
\* cleared
CleanedRegistryKeepsDisposed(reg) == [k \in DOMAIN reg |-> Disposed(reg[k])]

\* the registry the cleanup leaves: synthsRef.current = {}
CleanedRegistry(reg) == EmptyReg

EnsureVoicesNone(acc, trs, i) == acc

\* first forEach of the [tracks] effect: a voice for every id that has none
RECURSIVE EnsureVoices(_, _, _)
EnsureVoices(acc, trs, i) ==
    IF i > Len(trs) THEN acc
    ELSE LET t == trs[i]
         IN  IF t.id \in DOMAIN acc.reg
             THEN EnsureVoices(acc, trs, i + 1)
             ELSE EnsureVoices(
                    [reg |-> Put(acc.reg, t.id,
                                 NewVoice(EffectFamily(t.instrument), t.volume)),
                     ops |-> Append(acc.ops, NewOp(t.id, EffectFamily(t.instrument)))],
                    trs, i + 1)

\* second forEach of the [tracks] effect: copy each track's volume
RECURSIVE SyncVolumes(_, _, _)
SyncVolumes(reg, trs, i) ==
    IF i > Len(trs) THEN reg
    ELSE SyncVolumes(IF trs[i].id \in DOMAIN reg
                     THEN [reg EXCEPT ![trs[i].id].volume = trs[i].volume]
                     ELSE reg,
                     trs, i + 1)

TempoAppliedNever(tr, value) == tr

\* the [bpm] effect: Tone.Transport.bpm.value = bpm
TempoApplied(tr, value) == [tr EXCEPT !.bpm = value]

RunEffects ==
    /\ mounted
    /\ dirty # {}
    /\ ~Draining
    /\ IF "tracks" \in dirty
       THEN LET made == EnsureVoices([reg |-> CleanedRegistry(synthsRef),
                                      ops |-> <<>>], tracks, 1)
            IN  /\ synthsRef' = SyncVolumes(made.reg, tracks, 1)
                /\ sequencerRef' = <<>>
                /\ lastOps' = CleanupOps(synthsRef, sequencerRef) \o made.ops
       ELSE /\ lastOps' = <<>>
            /\ UNCHANGED <<synthsRef, sequencerRef>>
    /\ transport' = IF "bpm" \in dirty THEN TempoApplied(transport, bpm)
                    ELSE transport
    /\ dirty' = {}
    /\ lastCall' = Call("effects", "")
    /\ UNCHANGED <<tracks, currentTrackId, isPlaying, bpm, currentStep,
                   ctxState, pending, mounted>>

setBpm(value) ==
    /\ Ready
    /\ bpm' = value
    /\ dirty' = IF value # bpm THEN dirty \cup {"bpm"} ELSE dirty
    /\ lastCall' = [Call("setBpm", "") EXCEPT !.step = value]
    /\ lastOps' = <<>>
    /\ UNCHANGED <<tracks, currentTrackId, isPlaying, currentStep, synthsRef,
                   sequencerRef, transport, ctxState, pending, mounted>>

\* ---------------------------------------------------------------- playback
\* "If any synths are missing, recreate them": a generic voice for every
\* track of the closure that has none
RECURSIVE RecreateMissing(_, _, _)
RecreateMissing(acc, trs, i) ==
    IF i > Len(trs) THEN acc
    ELSE LET t == trs[i]
         IN  IF t.id \in DOMAIN acc.reg
             THEN RecreateMissing(acc, trs, i + 1)
             ELSE RecreateMissing(
                    [reg |-> Put(acc.reg, t.id, NewVoice("Synth", t.volume)),
                     ops |-> Append(acc.ops, NewOp(t.id, "Synth"))],
                    trs, i + 1)

\* createSequence(): the tick callback closes over the tracks of the render
\* that created it
createSequence(trs) == <<[tracks |-> trs, steps |-> TotalSteps]>>

createSequenceOpsNoDispose(seqRef) == <<Op("sequence.start", "", FALSE)>>

createSequenceOps(seqRef) ==
    (IF seqRef # <<>> THEN <<Op("sequence.dispose", "", FALSE)>> ELSE <<>>)
      \o <<Op("sequence.start", "", FALSE)>>

TransportPausedAsStop(tr) == [tr EXCEPT !.state = "stopped", !.position = 0]

\* Tone.Transport.pause() acts only on a started transport
TransportPaused(tr) == [tr EXCEPT !.state = IF @ = "started" THEN "paused" ELSE @]

TransportStartedShortLoop(tr) ==
    [tr EXCEPT !.state = "started", !.position = 0, !.loop = TRUE,
               !.loopEnd = TotalSteps - 1]

TransportStartedKeepsPosition(tr) ==
    [tr EXCEPT !.state = "started", !.loop = TRUE, !.loopEnd = TotalSteps]

\* setLoopPoints(0, totalSteps * 8n); loop = true; position = 0; start()
TransportStarted(tr) ==
    [tr EXCEPT !.state = "started", !.position = 0, !.loop = TRUE,
               !.loopEnd = TotalSteps]

\* the body of togglePlayback after the audio context is running, executed
\* with the tracks and isPlaying of the render whose handler was invoked
PlaybackBody(cl) ==
    IF cl.isPlaying
    THEN /\ transport' = TransportPaused(transport)
         /\ isPlaying' = IF mounted THEN FALSE ELSE isPlaying
         /\ lastOps' = <<Op("Transport.pause", "", FALSE)>>
         /\ UNCHANGED <<synthsRef, sequencerRef>>
    ELSE LET made == RecreateMissing([reg |-> synthsRef, ops |-> <<>>], cl.tracks, 1)
         IN  /\ synthsRef' = made.reg
             /\ sequencerRef' = createSequence(cl.tracks)
             /\ transport' = TransportStarted(transport)
             /\ isPlaying' = IF mounted THEN TRUE ELSE isPlaying
             /\ lastOps' = made.ops \o createSequenceOps(sequencerRef)
                             \o <<Op("Transport.start", "", FALSE)>>

AudioReadyAssumed(state) == TRUE

\* Tone.context.state !== "running" sends the handler through
\* await Tone.start()
AudioReady(state) == state = "running"

togglePlayback ==
    /\ Ready
    /\ lastCall' = Call("togglePlayback", "")
    /\ IF ~AudioReady(ctxState)
       THEN /\ Len(pending) < MaxPending
            /\ pending' = Append(pending, [tracks |-> tracks, isPlaying |-> isPlaying])
            /\ lastOps' = <<Op("Tone.start", "", FALSE)>>
            /\ UNCHANGED <<isPlaying, synthsRef, sequencerRef, transport>>
       ELSE /\ PlaybackBody([tracks |-> tracks, isPlaying |-> isPlaying])
            /\ UNCHANGED pending
    /\ UNCHANGED <<tracks, currentTrackId, bpm, currentStep, ctxState, dirty, mounted>>

\* Tone.start() resolved: the suspended togglePlayback continues
ResumeToggle ==
    /\ pending # <<>>
    /\ ctxState' = "running"
    /\ PlaybackBody(Head(pending))
    /\ pending' = Tail(pending)
    /\ lastCall' = Call("togglePlayback.resume", "")
    /\ UNCHANGED <<tracks, currentTrackId, bpm, currentStep, dirty, mounted>>

\* Tone.start() rejected: the catch block logs and returns
AudioFailed ==
    /\ pending # <<>>
    /\ ctxState = "suspended"
    /\ pending' = Tail(pending)
    /\ lastCall' = Call("togglePlayback.rejected", "")
    /\ lastOps' = <<>>
    /\ UNCHANGED <<tracks, currentTrackId, isPlaying, bpm, currentStep, synthsRef,
                   sequencerRef, transport, ctxState, dirty, mounted>>

resetPlayback ==
    /\ Ready
    /\ currentStep' = 0
    /\ transport' = IF transport.state # "stopped"
                    THEN [transport EXCEPT !.position = 0]
                    ELSE transport
    /\ lastCall' = Call("resetPlayback", "")
    /\ lastOps' = <<>>
    /\ UNCHANGED <<tracks, currentTrackId, isPlaying, bpm, synthsRef, sequencerRef,
                   ctxState, pending, dirty, mounted>>

TrackTriggersNoVoiceCheck(reg, track, step) ==
    LET notesToPlay == SelectSeq(track.notes, LAMBDA n : n.step = step)
    IN  IF ~track.muted /\ Len(notesToPlay) > 0
        THEN [k \in 1..Len(notesToPlay) |->
                TriggerOp(track.id, notesToPlay[k].pitch,
                          ToneDuration(notesToPlay[k].duration),
                          track.id \notin DOMAIN reg)]
        ELSE <<>>

\* the triggers the tick callback issues for one track of its closure
TrackTriggers(reg, track, step) ==
    LET notesToPlay == SelectSeq(track.notes, LAMBDA n : n.step = step)
    IN  IF ~track.muted /\ Len(notesToPlay) > 0 /\ track.id \in DOMAIN reg
        THEN [k \in 1..Len(notesToPlay) |->
                TriggerOp(track.id, notesToPlay[k].pitch,
                          ToneDuration(notesToPlay[k].duration),
                          reg[track.id].disposed)]
        ELSE <<>>

RECURSIVE TickTriggers(_, _, _, _)
TickTriggers(reg, trs, step, i) ==
    IF i > Len(trs) THEN <<>>
    ELSE TrackTriggers(reg, trs[i], step) \o TickTriggers(reg, trs, step, i + 1)

\* the transport reaches the next eighth note and the scheduled sequence
\* runs its callback for that step.  The clock position is followed only
\* while a sequence is scheduled: nothing reads it otherwise, and every
\* build rewinds it to 0.
Tick ==
    /\ transport.state = "started"
    /\ sequencerRef # <<>>
    /\ ~Draining
    /\ LET position == transport.position
           step == position % sequencerRef[1].steps
           ops == TickTriggers(synthsRef, sequencerRef[1].tracks, step, 1)
           hit == {ops[k].id : k \in 1..Len(ops)}
       IN  /\ transport' = [transport EXCEPT !.position =
                               IF transport.loop
                               THEN (position + 1) % transport.loopEnd
                               ELSE position + 1]
           /\ currentStep' = IF mounted THEN step ELSE currentStep
           /\ lastOps' = ops
           /\ synthsRef' = [k \in DOMAIN synthsRef |->
                              IF k \in hit /\ ~synthsRef[k].disposed
                              THEN [synthsRef[k] EXCEPT !.sounding = TRUE]
                              ELSE synthsRef[k]]
    /\ lastCall' = Call("tick", "")
    /\ UNCHANGED <<tracks, currentTrackId, isPlaying, bpm, sequencerRef, ctxState,
                   pending, dirty, mounted>>

\* the release scheduled by triggerAttackRelease comes due
NoteEnded(id) ==
    /\ id \in DOMAIN synthsRef
    /\ synthsRef[id].sounding
    /\ ~Draining
    /\ synthsRef' = [synthsRef EXCEPT ![id] = Released(@)]
    /\ lastCall' = Call("noteEnded", id)
    /\ lastOps' = <<>>
    /\ UNCHANGED <<tracks, currentTrackId, isPlaying, bpm, currentStep, sequencerRef,
                   transport, ctxState, pending, dirty, mounted>>

\* Tone.Transport.stop() rewinds to the start
TransportStopped(tr) == [tr EXCEPT !.state = "stopped", !.position = 0]

\* unmount: the cleanup of the [tracks] effect, then the cleanup of the []
\* effect, which finds both refs already cleared
Unmount ==
    /\ Ready
    /\ mounted' = FALSE
    /\ synthsRef' = CleanedRegistry(synthsRef)
    /\ sequencerRef' = <<>>
    /\ transport' = IF transport.state # "stopped" THEN TransportStopped(transport)
                    ELSE transport
    /\ lastOps' = CleanupOps(synthsRef, sequencerRef)
                    \o (IF transport.state # "stopped"
                        THEN <<Op("Transport.stop", "", FALSE)>> ELSE <<>>)
    /\ lastCall' = Call("unmount", "")
    /\ UNCHANGED <<tracks, currentTrackId, isPlaying, bpm, currentStep, ctxState,
                   pending, dirty>>

\* ------------------------------------------------ a Tone.js call that throws
\* the record of the call `at` on the voice of id throwing, caught by a try
\* block or not
ThrowOp(reg, id, at, caught) ==
    [Op(IF caught THEN "throw" ELSE "uncaught", id, reg[id].disposed)
       EXCEPT !.arg = at]

\* the calls of the try block of removeTrack / updateTrackInstrument up to
\* the call `at` that throws
ThrowOps(reg, id, at) ==
    (IF at = "dispose" THEN <<Op("releaseAll", id, reg[id].disposed)>> ELSE <<>>)
      \o <<ThrowOp(reg, id, at, TRUE)>>

\* the voice after the try block was left at `at`: releaseAll has run if
\* dispose threw, and a dispose that threw may or may not have taken effect
AfterThrow(v, at, done) ==
    IF at = "releaseAll" THEN v
    ELSE IF done THEN Disposed(Released(v)) ELSE Released(v)

\* removeTrack when releaseAll or dispose of the voice throws: the catch
\* block logs, the voice stays registered, the track is removed
removeTrackThrows(id, at) ==
    /\ Ready
    /\ ~IsLastTrack(tracks)
    /\ id \in DOMAIN synthsRef
    /\ \E done \in BOOLEAN :
          synthsRef' = [synthsRef EXCEPT ![id] = AfterThrow(@, at, done)]
    /\ lastOps' = ThrowOps(synthsRef, id, at)
    /\ LET remainingTracks == SelectSeq(tracks, LAMBDA t : t.id # id)
       IN  /\ tracks' = remainingTracks
           /\ currentTrackId' =
                 IF currentTrackId = id /\ remainingTracks # <<>>
                 THEN remainingTracks[1].id
                 ELSE currentTrackId
    /\ dirty' = dirty \cup {"tracks"}
    /\ lastCall' = Call("removeTrack", id)
    /\ UNCHANGED <<isPlaying, bpm, currentStep, sequencerRef, transport,
                   ctxState, pending, mounted>>

\* updateTrackInstrument when releaseAll or dispose of the old voice throws:
\* the catch block logs and the new voice replaces the old registration
updateTrackInstrumentThrows(id, instrument, at) ==
    /\ Ready
    /\ id \in DOMAIN synthsRef
    /\ LET track == Find(tracks, id)
           synth == NewVoice(ChangeFamily(instrument),
                             IF track # <<>> THEN track[1].volume ELSE 0)
       IN  /\ synthsRef' = Put(synthsRef, id, synth)
           /\ lastOps' = ThrowOps(synthsRef, id, at)
                           \o <<NewOp(id, synth.family)>>
    /\ tracks' = [i \in 1..Len(tracks) |->
                    IF tracks[i].id = id
                    THEN [tracks[i] EXCEPT !.instrument = instrument]
                    ELSE tracks[i]]
    /\ dirty' = dirty \cup {"tracks"}
    /\ lastCall' = [Call("updateTrackInstrument", id) EXCEPT !.pitch = instrument]
    /\ UNCHANGED <<currentTrackId, isPlaying, bpm, currentStep, sequencerRef,
                   transport, ctxState, pending, mounted>>

\* the registered ids Object.values() visits before / after the id `bad`
KeysBefore(reg, bad) ==
    LET ks == Keys(reg)
        at == CHOOSE i \in 1..Len(ks) : ks[i] = bad
    IN  SubSeq(ks, 1, at - 1)

KeysAfter(reg, bad) ==
    LET ks == Keys(reg)
        at == CHOOSE i \in 1..Len(ks) : ks[i] = bad
    IN  SubSeq(ks, at + 1, Len(ks))

\* unmount when dispose of the voice of `bad` throws.  The cleanup of the
\* [tracks] effect has no try block: the throw leaves its forEach and the
\* cleanup before the sequence is disposed and the refs are cleared.  The
\* cleanup of the [] effect then stops the transport, disposes every
\* registered voice inside a try block (those already disposed a second
\* time; the dispose that threw may throw again), disposes the sequence and
\* clears the refs.
UnmountThrows(bad) ==
    /\ Ready
    /\ bad \in DOMAIN synthsRef
    /\ mounted' = FALSE
    /\ synthsRef' = EmptyReg
    /\ sequencerRef' = <<>>
    /\ transport' = IF transport.state # "stopped" THEN TransportStopped(transport)
                    ELSE transport
    /\ \E again \in BOOLEAN :
        LET before == KeysBefore(synthsRef, bad)
            after == KeysAfter(synthsRef, bad)
        IN  lastOps' =
              [i \in 1..Len(before) |-> Op("dispose", before[i], FALSE)]
                \o <<ThrowOp(synthsRef, bad, "dispose", FALSE)>>
                \o (IF transport.state # "stopped"
                    THEN <<Op("Transport.stop", "", FALSE)>> ELSE <<>>)
                \o [i \in 1..Len(before) |-> Op("dispose", before[i], TRUE)]
                \o (IF again THEN <<ThrowOp(synthsRef, bad, "dispose", TRUE)>>
                    ELSE <<Op("dispose", bad, synthsRef[bad].disposed)>>)
                \o [i \in 1..Len(after) |-> Op("dispose", after[i], FALSE)]
               \o (IF sequencerRef # <<>>
                   THEN <<Op("sequence.dispose", "", FALSE)>> ELSE <<>>)
    /\ lastCall' = Call("unmount", bad)
    /\ UNCHANGED <<tracks, currentTrackId, isPlaying, bpm, currentStep, ctxState,
                   pending, dirty>>

\* ----------------------------------------------------------- specification
\* every handler, callback and effect of the component
Next ==
    \/ addTrack
    \/ \E id \in TrackIds(tracks) : removeTrack(id)
    \/ \E id \in TrackIds(tracks) : setCurrentTrackId(id)
    \/ \E id \in TrackIds(tracks), ins \in Instruments : updateTrackInstrument(id, ins)
    \/ \E id \in TrackIds(tracks), v \in Volumes : updateTrackVolume(id, v)
    \/ \E id \in TrackIds(tracks) : toggleTrackMute(id)
    \/ \E id \in IdInputs, s \in NoteSteps, p \in Pitches, d \in Durations :
          addNote(id, s, p, d)
    \/ \E id \in TrackIds(tracks) : clearTrack(id)
    \/ RunEffects
    \/ \E v \in BpmInputs : setBpm(v)
    \/ togglePlayback
    \/ ResumeToggle
    \/ AudioFailed
    \/ resetPlayback
    \/ Tick
    \/ \E id \in IdInputs : NoteEnded(id)
    \/ Unmount

Spec == Init /\ [][Next]_vars

\* the track list and the voice registry: every track-level edit, no notes,
\* no playback
NextTracks ==
    \/ addTrack
    \/ \E id \in TrackIds(tracks) : removeTrack(id)
    \/ \E id \in TrackIds(tracks) : setCurrentTrackId(id)
    \/ \E id \in TrackIds(tracks), ins \in Instruments : updateTrackInstrument(id, ins)
    \/ \E id \in TrackIds(tracks), v \in Volumes : updateTrackVolume(id, v)
    \/ \E id \in TrackIds(tracks) : toggleTrackMute(id)
    \/ RunEffects
    \/ Unmount

SpecTracks == Init /\ [][NextTracks]_vars

\* note edits on a changing track list
NextNotes ==
    \/ addTrack
    \/ \E id \in TrackIds(tracks) : removeTrack(id)
    \/ \E id \in IdInputs, s \in NoteSteps, p \in Pitches, d \in Durations :
          addNote(id, s, p, d)
    \/ \E id \in TrackIds(tracks) : clearTrack(id)
    \/ RunEffects

SpecNotes == Init /\ [][NextNotes]_vars

\* toggles with valid and invalid durations on a growing track list
NextToggle ==
    \/ addTrack
    \/ \E id \in TrackIds(tracks), s \in NoteSteps, p \in Pitches, d \in DurationInputs :
          addNote(id, s, p, d)
    \/ RunEffects

SpecToggle == Init /\ [][NextToggle]_vars

\* every mutation of the track list, made while the transport runs, pauses
\* and is reset
EditAnything ==
    \/ addTrack
    \/ \E id \in TrackIds(tracks) : removeTrack(id)
    \/ \E id \in TrackIds(tracks), ins \in Instruments : updateTrackInstrument(id, ins)
    \/ \E id \in TrackIds(tracks), v \in Volumes : updateTrackVolume(id, v)
    \/ \E id \in TrackIds(tracks) : toggleTrackMute(id)
    \/ \E id \in TrackIds(tracks), p \in Pitches : addNote(id, 0, p, "quarter")
    \/ \E id \in TrackIds(tracks) : clearTrack(id)

NextFrame ==
    \/ pending = <<>> /\ EditAnything
    \/ RunEffects
    \/ togglePlayback
    \/ ResumeToggle
    \/ resetPlayback
    \/ Tick

SpecFrame == Init /\ [][NextFrame]_vars

\* drops on the staves of tracks in either clef
DropXs == {-5, 25, 160}
DropYs == {0, 75, 1000}
StaffDims == {<<>>, <<160>>}
Dragged == {"", "half"}

RECURSIVE NoteCount(_, _)
NoteCount(trs, i) ==
    IF i > Len(trs) THEN 0 ELSE Len(trs[i].notes) + NoteCount(trs, i + 1)

ScoreHasRoom == NoteCount(tracks, 1) < MaxNotes

NextDrop ==
    \/ addTrack
    \/ \E id \in TrackIds(tracks) : updateTrackInstrument(id, "cello")
    \/ \E id \in TrackIds(tracks), x \in DropXs, y \in DropYs,
          dims \in StaffDims, dragged \in Dragged :
          ScoreHasRoom /\ handleDropAt(id, x, y, dims, dragged)
    \/ \E id \in TrackIds(tracks) : clearTrack(id)
    \/ RunEffects

SpecDrop == Init /\ [][NextDrop]_vars

\* the values of the NoteDuration type
NoteLengths == {"whole", "half", "quarter", "eighth", "sixteenth"}

\* ticks over notes of every duration, and of a duration that is none of the
\* NoteDuration values
NextLength ==
    \/ pending = <<>>
         /\ \E id \in TrackIds(tracks), p \in Pitches, d \in NoteLengths \cup DurationInputs :
               addNote(id, 0, p, d)
    \/ RunEffects
    \/ togglePlayback
    \/ ResumeToggle
    \/ Tick

SpecLength == Init /\ [][NextLength]_vars

\* ticks over a track that is muted, unmuted and edited while the sequence
\* runs
EditUnderTicks ==
    \/ \E id \in TrackIds(tracks) : toggleTrackMute(id)
    \/ \E id \in TrackIds(tracks), s \in NoteSteps, p \in Pitches :
          addNote(id, s, p, "quarter")

NextMute ==
    \/ pending = <<>> /\ EditUnderTicks
    \/ RunEffects
    \/ togglePlayback
    \/ ResumeToggle
    \/ Tick

SpecMute == Init /\ [][NextMute]_vars

\* track removal, instrument change and teardown when a call on a voice
\* throws
ThrowPoints == {"releaseAll", "dispose"}

NextFaults ==
    \/ addTrack
    \/ \E id \in TrackIds(tracks) : removeTrack(id)
    \/ \E id \in TrackIds(tracks), at \in ThrowPoints : removeTrackThrows(id, at)
    \/ \E id \in TrackIds(tracks), ins \in Instruments, at \in ThrowPoints :
          updateTrackInstrumentThrows(id, ins, at)
    \/ RunEffects
    \/ togglePlayback
    \/ ResumeToggle
    \/ Unmount
    \/ \E bad \in TrackIds(tracks) : UnmountThrows(bad)

SpecFaults == Init /\ [][NextFaults]_vars

\* the staff: drops at any position, and addNote called with any step
NextStaff ==
    \/ addTrack
    \/ \E id \in TrackIds(tracks), s \in DropSteps, p \in Pitches :
          handleDrop(id, s, p, "quarter")
    \/ \E id \in IdInputs, s \in DropSteps, p \in Pitches :
          addNote(id, s, p, "quarter")
    \/ \E id \in TrackIds(tracks) : clearTrack(id)
    \/ RunEffects

SpecStaff == Init /\ [][NextStaff]_vars

\* playback interleaved with track edits: ticks may fall between an edit and
\* its effects.  Notes go on step 0 only, and edits wait until a pending
\* audio activation has settled.
EditWhilePlaying ==
    \/ addTrack
    \/ \E id \in TrackIds(tracks) : removeTrack(id)
    \/ \E id \in TrackIds(tracks), ins \in Instruments : updateTrackInstrument(id, ins)
    \/ \E id \in TrackIds(tracks), p \in Pitches : addNote(id, 0, p, "quarter")

NextPlay ==
    \/ pending = <<>> /\ EditWhilePlaying
    \/ RunEffects
    \/ togglePlayback
    \/ ResumeToggle
    \/ AudioFailed
    \/ resetPlayback
    \/ Tick
    \/ Unmount

SpecPlay == Init /\ [][NextPlay]_vars

\* edits made while an audio activation is pending: the suspended handler
\* continues with the tracks of the render it was invoked in
NextStale ==
    \/ addTrack
    \/ \E id \in TrackIds(tracks) : removeTrack(id)
    \/ \E id \in TrackIds(tracks), p \in Pitches : addNote(id, 0, p, "quarter")
    \/ RunEffects
    \/ togglePlayback
    \/ ResumeToggle
    \/ AudioFailed
    \/ Tick

SpecStale == Init /\ [][NextStale]_vars

\* the tempo slider in every playback state
NextTempo ==
    \/ \E v \in BpmInputs : setBpm(v)
    \/ pending = <<>> /\ \E id \in TrackIds(tracks), p \in Pitches :
                            addNote(id, 0, p, "quarter")
    \/ RunEffects
    \/ togglePlayback
    \/ ResumeToggle
    \/ AudioFailed
    \/ resetPlayback
    \/ Tick
    \/ Unmount

SpecTempo == Init /\ [][NextTempo]_vars

\* ================================================================== claims
Range(seq) == {seq[i] : i \in 1..Len(seq)}
RemoveAt(seq, k) == [i \in 1..(Len(seq) - 1) |-> IF i < k THEN seq[i] ELSE seq[i + 1]]
FirstIndex(trs, id) == CHOOSE i \in 1..Len(trs) :
                          trs[i].id = id /\ \A j \in 1..(i - 1) : trs[j].id # id
Quiescent == mounted /\ dirty = {}

\* C1: the ids of the tracks in the track list are pairwise distinct (every
\* id addTrack issues is new).  The code derives the id from the list length,
\* so after a removal addTrack reissues an id that is still in the list.
C1_IdsPairwiseDistinct ==
    \A i, j \in 1..Len(tracks) : i # j => tracks[i].id # tracks[j].id

\* C2: in every reachable state the track list holds at least one track.
\* Fails once two tracks share an id (C1): removeTrack then filters out both.
C2_TrackListNonEmpty == Len(tracks) >= 1

\* C3: removeTrack called on a one-track list is rejected: the track list,
\* the selection, the voice registry and the playback state are unchanged,
\* no effect is scheduled and no voice is released or disposed.
C3_RemoveLastRejected ==
    [][(lastCall'.op = "removeTrack" /\ Len(tracks) = 1)
         => /\ UNCHANGED <<tracks, currentTrackId, synthsRef, sequencerRef,
                           transport, isPlaying, currentStep, dirty, pending>>
            /\ lastOps' = <<>>]_vars

\* a rejected removeTrack on the only track, while a sequence is playing
C3_Witness ==
    /\ lastCall.op = "removeTrack"
    /\ Len(tracks) = 1
    /\ dirty = {}
    /\ isPlaying
    /\ sequencerRef # <<>>
    /\ DOMAIN synthsRef # {}

\* C4: the selected track id is the id of a track in the track list.
\* Fails with C2: the list can become empty while the selection stays.
C4_SelectionInTrackList == currentTrackId \in TrackIds(tracks)

\* C5: a successful removeTrack(id) removes exactly one track, the one with
\* that id, keeps the others in order, and releases, disposes and
\* unregisters the removed track's voice once.  With two tracks sharing an
\* id (C1) the filter removes both.
C5_RemoveExactlyOne ==
    [][(lastCall'.op = "removeTrack" /\ Len(tracks) > 1)
         => /\ \E k \in 1..Len(tracks) :
                  tracks[k].id = lastCall'.id /\ tracks' = RemoveAt(tracks, k)
            /\ lastOps' = <<Op("releaseAll", lastCall'.id, FALSE),
                            Op("dispose", lastCall'.id, FALSE),
                            Op("delete", lastCall'.id, FALSE)>>
            /\ lastCall'.id \notin DOMAIN synthsRef']_vars

\* C6: addTrack appends exactly one track with empty notes, instrument
\* piano, volume 0 and muted false, leaves the existing tracks unchanged and
\* selects the new track.
C6_AddTrackAppendsDefault ==
    [][lastCall'.op = "addTrack"
         => /\ Len(tracks') = Len(tracks) + 1
            /\ SubSeq(tracks', 1, Len(tracks)) = tracks
            /\ LET new == tracks'[Len(tracks')]
               IN  /\ new.instrument = "piano"
                   /\ new.notes = <<>>
                   /\ new.volume = 0
                   /\ new.muted = FALSE
                   /\ currentTrackId' = new.id]_vars

\* addTrack has just appended to a list whose first track had been edited
C6_Witness ==
    /\ lastCall.op = "addTrack"
    /\ Len(tracks) = 2
    /\ tracks[1].instrument = "violin"
    /\ tracks[1].muted
    /\ currentTrackId = tracks[2].id

NoteSet(track) == Range(track.notes)
ToggledTwice(trs, t, s, p, d) ==
    AddNoteTracks(AddNoteTracks(trs, t, s, p, d), t, s, p, d)

C8_NoDuplicateNotes ==
    \A i \in 1..Len(tracks) :
        \A j, k \in 1..Len(tracks[i].notes) :
            j # k => ~(/\ tracks[i].notes[j].step = tracks[i].notes[k].step
                       /\ tracks[i].notes[j].pitch = tracks[i].notes[k].pitch)

\* two tracks share an id, the handler inspects only the first, and both
\* hold notes, the second fewer than the first
C8_Witness ==
    \E i, j \in 1..Len(tracks) :
        /\ i < j
        /\ tracks[i].id = tracks[j].id
        /\ Len(tracks[i].notes) = 2
        /\ Len(tracks[j].notes) = 1

\* C9: once the effects have run, the registry holds exactly one live voice
\* per track: its keys are the track ids, none is disposed, and there are
\* as many voices as tracks.  Two tracks sharing an id (C1) share one voice.
C9_OneLiveVoicePerTrack ==
    Quiescent
      => /\ DOMAIN synthsRef = TrackIds(tracks)
         /\ \A id \in DOMAIN synthsRef : ~synthsRef[id].disposed
         /\ Cardinality(DOMAIN synthsRef) = Len(tracks)

\* C10: no tick issues a trigger on a voice that has been disposed.
C10_NoTriggerOnDisposed ==
    \A k \in 1..Len(lastOps) :
        lastOps[k].op = "triggerAttackRelease" => ~lastOps[k].dead

\* a tick fell between updateTrackInstrument and its effects and triggered
\* the replacement of the voice the handler had just disposed
C10_Witness ==
    /\ lastCall.op = "tick"
    /\ dirty = {"tracks"}
    /\ \E k \in 1..Len(lastOps) :
          /\ lastOps[k].op = "triggerAttackRelease"
          /\ lastOps[k].id \in DOMAIN synthsRef
          /\ synthsRef[lastOps[k].id].family = "AMSynth"
          /\ Find(sequencerRef[1].tracks, lastOps[k].id)[1].instrument = "piano"

\* C11: whenever isPlaying is true a built, undisposed sequence exists, also
\* after a track or note mutation made while playing.  The cleanup of the
\* [tracks] effect disposes the sequence on every change of the track list
\* and nothing rebuilds it.
C11_PlayingHasSequence == (mounted /\ isPlaying) => sequencerRef # <<>>

\* C12: the triggers a tick issues are computed from the track list as it is
\* at tick time, so a mutation made between two ticks is heard on the very
\* next tick.  The callback reads the list captured when the sequence was
\* built.
C12_TickReadsLiveTracks ==
    [][lastCall'.op = "tick" =>
         lastOps' = TickTriggers(synthsRef, tracks,
                                 transport.position % TotalSteps, 1)]_vars

\* C13: currentStep always lies in 0..totalSteps-1, and of two ticks with no
\* user action between them the second shows the step after the first,
\* wrapping from totalSteps-1 to 0.
C13_StepsAdvanceInOrder ==
    [][/\ currentStep' \in 0..(TotalSteps - 1)
       /\ (mounted /\ lastCall.op = "tick" /\ lastCall'.op = "tick")
            => currentStep' = (currentStep + 1) % TotalSteps]_vars

\* the last step has just been shown and the clock has wrapped to the start
C13_Witness ==
    /\ lastCall.op = "tick"
    /\ isPlaying
    /\ currentStep = TotalSteps - 1
    /\ transport.position = 0

\* a start step: togglePlayback, or its continuation after Tone.start(),
\* taken with the transport stopped and isPlaying false
StartFromStopped ==
    /\ lastCall'.op \in {"togglePlayback", "togglePlayback.resume"}
    /\ transport.state = "stopped"
    /\ ~isPlaying
    /\ ctxState' = "running"

\* C14: a start from Stopped builds the sequence from the track list current
\* at that moment, sets the loop window [0, totalSteps) with looping on,
\* rewinds to 0, starts the transport and sets isPlaying.  A handler that
\* waited in Tone.start() builds from the list of the render it was invoked
\* in.
C14_StartBuildsFromCurrentTracks ==
    [][StartFromStopped =>
         /\ sequencerRef' # <<>>
         /\ sequencerRef'[1].tracks = tracks
         /\ transport' = [transport EXCEPT !.state = "started", !.position = 0,
                                           !.loop = TRUE, !.loopEnd = TotalSteps]
         /\ isPlaying']_vars

\* a pause step: togglePlayback invoked while playing
PauseStep ==
    /\ lastCall'.op = "togglePlayback"
    /\ isPlaying
    /\ ctxState = "running"

\* C15: pausing from Playing pauses the transport and clears isPlaying,
\* leaves currentStep, the sequence, the track list and the voice registry
\* as they were, and no tick fires while the transport is paused.
C15_PauseFreezesPlayback ==
    [][/\ PauseStep =>
            /\ transport' = [transport EXCEPT !.state = "paused"]
            /\ ~isPlaying'
            /\ UNCHANGED <<currentStep, sequencerRef, tracks, synthsRef>>
       /\ lastCall'.op = "tick" => transport.state = "started"]_vars

\* paused in the middle of the loop with the sequence still built
C15_Witness ==
    /\ lastCall.op = "togglePlayback"
    /\ ~isPlaying
    /\ transport.state = "paused"
    /\ transport.position > 1
    /\ currentStep > 0
    /\ sequencerRef # <<>>

\* a start step taken with the transport paused
ResumeFromPaused ==
    /\ lastCall'.op = "togglePlayback"
    /\ ~isPlaying
    /\ ctxState = "running"
    /\ transport.state = "paused"

\* C16: starting again from Paused resumes from the retained position: the
\* clock keeps the position it was paused at, so the first tick after the
\* resume is for the step after the one shown at the pause.
C16_ResumeKeepsPosition ==
    [][ResumeFromPaused => transport'.position = transport.position]_vars

\* C16 as the code has it: starting again from Paused rebuilds the sequence
\* and rewinds the clock to 0, and the first tick after a start is for
\* step 0 whatever step was shown at the pause.
C16_ResumeRestartsAtZero ==
    [][/\ ResumeFromPaused =>
            /\ transport'.state = "started"
            /\ transport'.position = 0
            /\ sequencerRef' = createSequence(tracks)
       /\ (lastCall.op = "togglePlayback" /\ isPlaying /\ lastCall'.op = "tick")
            => currentStep' = 0]_vars

\* restarted after a pause in the middle of the loop, before the first tick
C16_Witness ==
    /\ lastCall.op = "togglePlayback"
    /\ isPlaying
    /\ transport.state = "started"
    /\ transport.position = 0
    /\ currentStep > 0

\* C17: reset from Playing or Paused sets currentStep to 0, stops the clock
\* outright and clears isPlaying.  resetPlayback only rewinds: it never
\* stops the transport and never touches isPlaying.
C17_ResetStops ==
    [][(lastCall'.op = "resetPlayback" /\ transport.state \in {"started", "paused"})
         => /\ currentStep' = 0
            /\ transport'.state = "stopped"
            /\ ~isPlaying']_vars

\* C18: while the audio context is not running (activation pending or
\* failed) nothing is built, the transport stays stopped, isPlaying stays
\* false and no tick fires; a start that waits changes none of these, and a
\* rejected activation changes nothing but the settled request.
C18_NoStartWithoutAudio ==
    /\ [](ctxState # "running" =>
            /\ sequencerRef = <<>>
            /\ transport.state = "stopped"
            /\ ~isPlaying
            /\ currentStep = 0)
    /\ [][/\ (lastCall'.op = "togglePlayback" /\ ctxState # "running") =>
               UNCHANGED <<tracks, currentTrackId, isPlaying, bpm, currentStep,
                           synthsRef, sequencerRef, transport, ctxState>>
          /\ lastCall'.op = "togglePlayback.rejected" =>
               UNCHANGED <<tracks, currentTrackId, isPlaying, bpm, currentStep,
                           synthsRef, sequencerRef, transport, ctxState, dirty,
                           mounted>>
          /\ lastCall'.op = "tick" => ctxState = "running"]_vars

\* an activation requested for an edited list has been rejected
C18_Witness ==
    /\ lastCall.op = "togglePlayback.rejected"
    /\ ctxState = "suspended"
    /\ pending = <<>>
    /\ Len(tracks) > 1
    /\ ~isPlaying
    /\ transport.state = "stopped"

\* C19: setBpm(v) with v in [60, 200] stores v in bpm and leaves
\* currentStep, isPlaying, the sequence, the track list and the registry
\* alone; once the [bpm] effect has run the transport tempo equals bpm, and
\* that effect changes nothing else; bpm stays within [60, 200].
C19_SetBpmOnlyChangesTempo ==
    /\ [](/\ bpm \in MinBpm..MaxBpm
          /\ Quiescent => transport.bpm = bpm)
    /\ [][/\ lastCall'.op = "setBpm" =>
               /\ bpm' = lastCall'.step
               /\ UNCHANGED <<currentStep, isPlaying, sequencerRef, tracks,
                              synthsRef, transport>>
          /\ (lastCall'.op = "effects" /\ dirty = {"bpm"}) =>
               /\ transport' = [transport EXCEPT !.bpm = bpm]
               /\ UNCHANGED <<currentStep, isPlaying, sequencerRef, tracks,
                              synthsRef, bpm>>]_vars

\* the tempo was raised to the maximum in the middle of playback
C19_Witness ==
    /\ lastCall.op = "effects"
    /\ bpm = MaxBpm
    /\ transport.bpm = MaxBpm
    /\ isPlaying
    /\ transport.state = "started"
    /\ currentStep > 0
    /\ sequencerRef # <<>>

\* a step that stops playback: pause, reset or teardown
StopStep ==
    \/ PauseStep
    \/ lastCall'.op = "resetPlayback"
    \/ lastCall'.op = "unmount"

\* C20: right after playback is stopped (pause, reset or teardown) no voice
\* is sounding.  Pause and reset never call releaseAll, so a note triggered
\* by the last tick keeps sounding.
C20_StopSilencesVoices ==
    [][StopStep => \A id \in DOMAIN synthsRef' : ~synthsRef'[id].sounding]_vars

\* C21: once the component has been unmounted no voice is registered (so
\* none is live) and the sequence reference is cleared.  A togglePlayback
\* that was waiting in Tone.start() when the component unmounted continues
\* afterwards: it allocates voices, builds a sequence and starts the
\* transport, and nothing ever disposes them.
C21_TeardownLeavesNothing ==
    ~mounted => (DOMAIN synthsRef = {} /\ sequencerRef = <<>>)

\* C22: a note edit (addNote, clearTrack) or a mute toggle allocates no
\* voice and disposes none, neither in the handler nor in the effects it
\* schedules: the registry afterwards holds the very voices it held before.
\* The [tracks] effect runs after every such edit; its cleanup disposes
\* every voice and its body allocates replacements.
C22_NoteEditKeepsVoices ==
    [][/\ lastCall'.op \in {"addNote", "clearTrack", "toggleTrackMute"} =>
            (synthsRef' = synthsRef /\ lastOps' = <<>>)
       /\ (lastCall.op \in {"addNote", "clearTrack", "toggleTrackMute"}
             /\ lastCall'.op = "effects") =>
            (synthsRef' = synthsRef /\ lastOps' = <<>>)]_vars

\* the Tone.js calls of a step that dispose the voice registered under id
DisposalsOf(ops, id) ==
    {k \in 1..Len(ops) : ops[k].op = "dispose" /\ ops[k].id = id}

\* C23: updateTrackInstrument(id, instrument) on an existing track sets the
\* instrument of the track, releases and disposes the previous voice of id
\* once, and registers under id one live voice of the family of the new
\* instrument at the track's volume; every other track and every other
\* voice stays as it was, also when the effects of the change have run.
\* The handler does all of this, but the [tracks] effect it schedules then
\* disposes every voice, the other tracks' included, and allocates
\* replacements.
C23_ChangeInstrumentReplacesOneVoice ==
    [][/\ (lastCall'.op = "updateTrackInstrument"
             /\ lastCall'.id \in TrackIds(tracks)) =>
            LET id == lastCall'.id
                instrument == lastCall'.pitch
            IN  /\ Len(tracks') = Len(tracks)
                /\ \A i \in 1..Len(tracks) :
                      tracks'[i] = IF tracks[i].id = id
                                   THEN [tracks[i] EXCEPT !.instrument = instrument]
                                   ELSE tracks[i]
                /\ id \in DOMAIN synthsRef =>
                      /\ Cardinality(DisposalsOf(lastOps', id)) = 1
                      /\ \E k \in 1..Len(lastOps') :
                            lastOps'[k].op = "releaseAll" /\ lastOps'[k].id = id
                /\ DOMAIN synthsRef' = DOMAIN synthsRef \cup {id}
                /\ synthsRef'[id] = NewVoice(EffectFamily(instrument),
                                             Find(tracks, id)[1].volume)
                /\ \A k \in DOMAIN synthsRef \ {id} :
                      synthsRef'[k] = synthsRef[k] /\ DisposalsOf(lastOps', k) = {}
       /\ (lastCall.op = "updateTrackInstrument" /\ lastCall'.op = "effects") =>
            /\ DOMAIN synthsRef' = DOMAIN synthsRef
            /\ \A k \in DOMAIN synthsRef :
                  synthsRef'[k] = synthsRef[k] /\ DisposalsOf(lastOps', k) = {}]_vars

\* C24: addNote on a track id that is not in the track list, or with a step
\* outside 0..totalSteps-1, is rejected: the track list, the selection, the
\* registry and the playback state are unchanged.  addNote checks the track
\* id only; the step is checked by the staff's drop handler, not by addNote.
C24_InvalidToggleRejected ==
    [][(lastCall'.op = "addNote"
          /\ (lastCall'.id \notin TrackIds(tracks)
                \/ lastCall'.step \notin 0..(TotalSteps - 1))) =>
         UNCHANGED <<tracks, currentTrackId, synthsRef, sequencerRef, transport,
                     isPlaying, currentStep>>]_vars

\* the notes of a sequence other than those at (step, pitch), in order
NotesElsewhere(notes, step, pitch) ==
    SelectSeq(notes, LAMBDA n : n.step # step \/ n.pitch # pitch)

\* C25: addNote matches on (step, pitch) only.  When the track with id t
\* holds a note at (s, p), addNote(t, s, p, d2) removes it whatever d2 is (a
\* value that is no valid duration included), keeps every other note of the
\* track in place, inserts nothing and leaves the other tracks alone.
C25_RemovalIgnoresDuration ==
    [][(/\ lastCall'.op = "addNote"
        /\ Find(tracks, lastCall'.id) # <<>>
        /\ NoteExists(Find(tracks, lastCall'.id)[1].notes,
                      lastCall'.step, lastCall'.pitch)) =>
         /\ Len(tracks') = Len(tracks)
         /\ \A i \in 1..Len(tracks) :
               tracks'[i] =
                 IF tracks[i].id = lastCall'.id
                 THEN [tracks[i] EXCEPT !.notes =
                         NotesElsewhere(@, lastCall'.step, lastCall'.pitch)]
                 ELSE tracks[i]
         /\ ~NoteExists(Find(tracks', lastCall'.id)[1].notes,
                        lastCall'.step, lastCall'.pitch)
         /\ Len(Find(tracks', lastCall'.id)[1].notes)
              = Len(Find(tracks, lastCall'.id)[1].notes) - 1]_vars

\* a call with an invalid duration has removed the note at its (step,
\* pitch) and left the track's other note in place
C25_Witness ==
    /\ lastCall.op = "addNote"
    /\ lastCall.duration = "4"
    /\ Find(tracks, lastCall.id) # <<>>
    /\ LET notes == Find(tracks, lastCall.id)[1].notes
       IN  /\ ~NoteExists(notes, lastCall.step, lastCall.pitch)
           /\ Len(notes) = 1
           /\ notes[1].duration = "quarter"

\* the notes at `step` of the unmuted tracks with this id, as <<track, note>>
\* index pairs
MatchingNotes(trs, id, step) ==
    UNION {{<<i, k>> : k \in {j \in 1..Len(trs[i].notes) : trs[i].notes[j].step = step}}
             : i \in {j \in 1..Len(trs) : trs[j].id = id /\ ~trs[j].muted}}

\* the triggers among the Tone.js calls of a step that go to the voice of id
TriggersFor(ops, id) ==
    {k \in 1..Len(ops) : ops[k].op = "triggerAttackRelease" /\ ops[k].id = id}

\* C26: a tick that finds no voice registered for a track of its list with
\* notes at the step skips that track for this tick: no trigger goes to its
\* id, no voice is allocated for it, currentStep is still set, and every
\* track whose voice is registered gets exactly the triggers of its notes at
\* this step (so nothing skipped earlier is replayed).
C26_AbsentVoiceSkipped ==
    [][lastCall'.op = "tick" =>
         LET trs == sequencerRef[1].tracks
             step == transport.position % TotalSteps
         IN  /\ mounted => currentStep' = step
             /\ DOMAIN synthsRef' = DOMAIN synthsRef
             /\ \A k \in 1..Len(lastOps') : lastOps'[k].op = "triggerAttackRelease"
             /\ \A id \in TrackIds(trs) :
                   Cardinality(TriggersFor(lastOps', id)) =
                     IF id \in DOMAIN synthsRef
                     THEN Cardinality(MatchingNotes(trs, id, step))
                     ELSE 0]_vars

\* the tick for step 0 has skipped a track whose voice was gone and has
\* triggered the note of another track
C26_Witness ==
    /\ lastCall.op = "tick"
    /\ mounted
    /\ currentStep = 0
    /\ sequencerRef # <<>>
    /\ \E id \in TrackIds(sequencerRef[1].tracks) :
          /\ id \notin DOMAIN synthsRef
          /\ MatchingNotes(sequencerRef[1].tracks, id, 0) # {}
          /\ TriggersFor(lastOps, id) = {}
    /\ lastOps # <<>>

\* C27: the tick for step k issues, for every track that is not muted and
\* has a live voice, exactly one trigger per note of the track at step k,
\* with the note's pitch and mapped duration, and no trigger for a muted
\* track or for a note at another step.  The tick reads the tracks captured
\* when the sequence was built, so after an edit or a mute toggle it still
\* plays the old list.
C27_TickTriggersMatchTracks ==
    [][lastCall'.op = "tick" =>
         LET step == transport.position % TotalSteps
         IN  \A id \in IdInputs :
               LET live == id \in DOMAIN synthsRef /\ ~synthsRef[id].disposed
                   due == MatchingNotes(tracks, id, step)
                   got == TriggersFor(lastOps', id)
               IN  /\ Cardinality(got) = IF live THEN Cardinality(due) ELSE 0
                   /\ \A k \in got : \E m \in due :
                         LET note == tracks[m[1]].notes[m[2]]
                         IN  /\ lastOps'[k].arg = note.pitch
                             /\ lastOps'[k].duration = ToneDuration(note.duration)]_vars

\* C28: while the component plays, every track that is not muted and holds
\* a note has a live voice registered under its id, also right after a
\* mutation made while playing.
C28_AudibleTracksHaveVoices ==
    (mounted /\ isPlaying) =>
        \A i \in 1..Len(tracks) :
            (~tracks[i].muted /\ Len(tracks[i].notes) > 0) =>
                /\ tracks[i].id \in DOMAIN synthsRef
                /\ ~synthsRef[tracks[i].id].disposed

\* the effects of an edit made while playing have run, and both tracks hold
\* notes
C28_Witness ==
    /\ mounted
    /\ isPlaying
    /\ lastCall.op = "effects"
    /\ Len(tracks) = 2
    /\ \A i \in 1..Len(tracks) : Len(tracks[i].notes) > 0

\* the Tone.js calls of a step record an error that left its handler
Escaped(ops) == \E k \in 1..Len(ops) : ops[k].op = "uncaught"

\* C29: when releasing or disposing a voice throws, the error stays inside
\* removeTrack, updateTrackInstrument and the unmount cleanups; the removal
\* still removes the track, and teardown still clears the registry and the
\* sequence reference.  The cleanup of the [tracks] effect, which runs first
\* on unmount, disposes the voices outside any try block.
C29_DisposeErrorsContained ==
    [][/\ lastCall'.op \in {"removeTrack", "updateTrackInstrument", "unmount"} =>
            ~Escaped(lastOps')
       /\ (lastCall'.op = "removeTrack" /\ ~IsLastTrack(tracks)) =>
            lastCall'.id \notin TrackIds(tracks')
       /\ lastCall'.op = "unmount" =>
            (DOMAIN synthsRef' = {} /\ sequencerRef' = <<>>)]_vars

\* C30: every key of the voice registry is the id of a track in the track
\* list, also when a track is removed while togglePlayback waits in
\* Tone.start().  The continuation walks the track list it captured and
\* registers a voice for the track that has been removed meanwhile.
C30_RegistryKeysAreTrackIds == DOMAIN synthsRef \subseteq TrackIds(tracks)

\* the positions of the calls named `name` among the Tone.js calls of a step
CallsOf(ops, name) == {k \in 1..Len(ops) : ops[k].op = name}

\* C31: at most one built, undisposed sequence exists.  Every step builds at
\* most one sequence, disposes only the sequence that is referenced, disposes
\* it before it builds a new one, and leaves the reference set exactly when a
\* built sequence is left undisposed; so the one referenced sequence is the
\* only live one, also when several starts were waiting for the audio
\* context and after a pause.
C31_OneLiveSequence ==
    [][LET built == CallsOf(lastOps', "sequence.start")
           disposed == CallsOf(lastOps', "sequence.dispose")
       IN  /\ Cardinality(built) <= 1
           /\ Cardinality(disposed) <= Len(sequencerRef)
           /\ (built # {} /\ sequencerRef # <<>>) =>
                 \E d \in disposed : \A b \in built : d < b
           /\ Len(sequencerRef') =
                 Len(sequencerRef) - Cardinality(disposed) + Cardinality(built)
           /\ Len(sequencerRef') <= 1]_vars

\* the second of two starts that waited for the audio context has disposed
\* the sequence the first one built and has built its own
C31_Witness ==
    /\ lastCall.op = "togglePlayback.resume"
    /\ pending = <<>>
    /\ sequencerRef # <<>>
    /\ \E d \in CallsOf(lastOps, "sequence.dispose") :
          \E b \in CallsOf(lastOps, "sequence.start") : d < b

\* C32: updateTrackVolume(id, v) sets the volume of the track and the level
\* of the voice registered under id, and in every quiescent state the level
\* of each live voice equals the volume of its track.  Fails once two tracks
\* share an id (C1): they share one voice, whose level follows the last of
\* them in list order.
C32_VoiceLevelIsTrackVolume ==
    /\ [][lastCall'.op = "updateTrackVolume"
            => /\ \A i \in 1..Len(tracks) :
                     tracks[i].id = lastCall'.id
                        => tracks'[i].volume = lastCall'.step
               /\ lastCall'.id \in DOMAIN synthsRef
                     => synthsRef'[lastCall'.id].volume = lastCall'.step]_vars
    /\ [](Quiescent =>
            \A i \in 1..Len(tracks) :
               (tracks[i].id \in DOMAIN synthsRef
                  /\ ~synthsRef[tracks[i].id].disposed)
                 => synthsRef[tracks[i].id].volume = tracks[i].volume)

\* C33: the lookup from instrument to voice family is total, an instrument
\* it does not list (such as "bass") gets the generic family, and in every
\* quiescent state the family of each live voice is the lookup result for
\* the current instrument of its track.  Fails once two tracks share an id
\* (C1): the shared voice is built for the first of them.
C33_VoiceFamilyIsLookup ==
    /\ \A ins \in InstrumentNames \cup {"bass"} : EffectFamily(ins) \in VoiceFamilies
    /\ EffectFamily("bass") = "Synth"
    /\ Quiescent =>
          \A i \in 1..Len(tracks) :
             (tracks[i].id \in DOMAIN synthsRef
                /\ ~synthsRef[tracks[i].id].disposed)
               => synthsRef[tracks[i].id].family = EffectFamily(tracks[i].instrument)

\* the release length the duration of a note maps to: 4, 2, 1, 1/2 and 1/4
\* beats in Tone.js notation, and a quarter for a note without a duration
MappedLength(d) ==
    CASE d = "whole" -> "1n"
      [] d = "half" -> "2n"
      [] d = "quarter" -> "4n"
      [] d = "eighth" -> "8n"
      [] d = "sixteenth" -> "16n"
      [] OTHER -> "4n"

\* C34: every trigger of a tick requests release after the mapped length of
\* the note it plays, which depends on the note's duration only: whole 4
\* beats, half 2, quarter 1, eighth 1/2, sixteenth 1/4; a note with no
\* duration is played as the default, a quarter.  The default arm of the
\* tick's switch is an eighth.
C34_ReleaseAfterMappedLength ==
    [][lastCall'.op = "tick" =>
         LET trs == sequencerRef[1].tracks
             step == transport.position % TotalSteps
         IN  \A k \in 1..Len(lastOps') :
                lastOps'[k].op = "triggerAttackRelease" =>
                   \E m \in MatchingNotes(trs, lastOps'[k].id, step) :
                      /\ trs[m[1]].notes[m[2]].pitch = lastOps'[k].arg
                      /\ lastOps'[k].duration =
                            MappedLength(trs[m[1]].notes[m[2]].duration)]_vars

\* C35: every disposal of a voice (track removal, instrument change, cleanup
\* of the [tracks] effect, teardown) is immediately preceded by release-all
\* on that voice.  removeTrack and updateTrackInstrument release first; the
\* two cleanups call dispose alone.
C35_ReleaseBeforeDispose ==
    [][\A k \in 1..Len(lastOps') :
          lastOps'[k].op = "dispose" =>
             /\ k > 1
             /\ lastOps'[k - 1].op = "releaseAll"
             /\ lastOps'[k - 1].id = lastOps'[k].id]_vars

\* the handlers that mutate the track list or the notes of a track
TrackMutations ==
    {"addTrack", "removeTrack", "updateTrackInstrument", "updateTrackVolume",
     "toggleTrackMute", "addNote", "clearTrack"}

\* C36: currentStep and isPlaying are written only by the transport controls
\* and by the tick: no mutation of the tracks or their notes changes either,
\* isPlaying changes only in togglePlayback, and currentStep changes only by
\* a tick of the running transport or by resetPlayback.
C36_PlaybackStateFrame ==
    [][/\ lastCall'.op \in TrackMutations
            => (currentStep' = currentStep /\ isPlaying' = isPlaying)
       /\ isPlaying' # isPlaying
            => lastCall'.op \in {"togglePlayback", "togglePlayback.resume"}
       /\ currentStep' # currentStep
            => \/ lastCall'.op = "resetPlayback"
               \/ (lastCall'.op = "tick" /\ isPlaying
                     /\ transport.state = "started")]_vars

\* a track was cleared while the sequence was playing past step 0, and the
\* step display and the playing flag stayed
C36_Witness ==
    /\ lastCall.op = "clearTrack"
    /\ isPlaying
    /\ transport.state = "started"
    /\ currentStep > 0

\* the list toggleTrackMute(id) passes to setTracks
MuteToggled(trs, id) ==
    [i \in 1..Len(trs) |->
        IF trs[i].id = id THEN [trs[i] EXCEPT !.muted = ~trs[i].muted] ELSE trs[i]]

\* C37: toggleTrackMute(id) flips the muted flag of that one track and
\* nothing else: its notes, instrument and volume, every other track and the
\* selection stay, and a second toggle restores the list.  With two tracks
\* sharing an id (C1) the toggle flips the flag of both.
C37_MuteFlipsOneFlag ==
    [][lastCall'.op = "toggleTrackMute"
         => /\ \E k \in 1..Len(tracks) :
                  /\ tracks[k].id = lastCall'.id
                  /\ tracks' = [tracks EXCEPT ![k].muted = ~tracks[k].muted]
            /\ MuteToggled(tracks', lastCall'.id) = tracks
            /\ currentTrackId' = currentTrackId]_vars

\* the handlers that take a track id and rewrite that track
PerTrackMutations ==
    {"updateTrackInstrument", "updateTrackVolume", "toggleTrackMute",
     "addNote", "clearTrack"}

\* C38: after any sequence of addTrack and removeTrack, a per-track mutation
\* given id x changes one entry of the track list, an entry whose id is x,
\* and leaves every other entry as it was.  With two tracks sharing an id
\* (C1) the mutation rewrites both.
C38_MutationRewritesOneEntry ==
    [][lastCall'.op \in PerTrackMutations
         => /\ Len(tracks') = Len(tracks)
            /\ \E k \in 1..Len(tracks) :
                  /\ tracks[k].id = lastCall'.id
                  /\ \A i \in 1..Len(tracks) : i # k => tracks'[i] = tracks[i]]_vars

\* C39: the two copies of the switch from instrument to voice family, the
\* one of the [tracks] effect and the one of updateTrackInstrument, agree on
\* every instrument, listed or not; so when the effect allocates the voice of
\* a track again, the voice has the family it had.
C39_SwitchesAgree ==
    /\ \A ins \in InstrumentNames \cup {"bass"} : ChangeFamily(ins) = EffectFamily(ins)
    /\ [][lastCall'.op = "effects"
            => \A i \in 1..Len(tracks) :
                  (tracks[i].id \in DOMAIN synthsRef
                     /\ tracks[i].id \in DOMAIN synthsRef')
                    => synthsRef'[tracks[i].id].family
                          = synthsRef[tracks[i].id].family]_vars

\* the effect has allocated again the voice that updateTrackInstrument built
\* for a violin
C39_Witness ==
    /\ lastCall.op = "effects"
    /\ \E i \in 1..Len(tracks) :
          /\ tracks[i].instrument = "violin"
          /\ tracks[i].id \in DOMAIN synthsRef
          /\ synthsRef[tracks[i].id].family = "AMSynth"
          /\ \E k \in 1..Len(lastOps) : lastOps[k] = NewOp(tracks[i].id, "AMSynth")

\* the drop among the events of a step, if there is one
DropsIn(ops) == {k \in 1..Len(ops) : ops[k].op = "drop"}

\* C40: a drop on the staff of a track whose width is known, at a position
\* whose step s lies on the staff (s * width <= totalSteps * x < (s + 1) *
\* width with 0 <= s < totalSteps), calls addNote once, with the id of that
\* track, the step s, the duration the drag carries (the active duration
\* when it carries none) and a pitch of the pitch list of the track's clef:
\* the one nearest to the drop (7.5 px apart from y = 30, halves rounded
\* down the staff), the first of the list for a drop above the staff's top
\* pitch, the last for a drop below its bottom pitch.  A drop whose step is off the staff, or
\* on a staff whose width is unknown, calls nothing and leaves the tracks.
C40_DropAddsOneNoteOnStaff ==
    [][\A k \in DropsIn(lastOps') :
          LET e == lastOps'[k]
              track == Find(tracks, e.id)
              list == ClefPitches(getInstrumentClef(track[1].instrument))
              onStaff == {s \in 0..(TotalSteps - 1) :
                            /\ e.dims # <<>>
                            /\ e.dims[1] > 0
                            /\ s * e.dims[1] <= TotalSteps * e.x
                            /\ TotalSteps * e.x < (s + 1) * e.dims[1]}
          IN  IF onStaff # {}
              THEN /\ lastCall'.op = "addNote"
                   /\ lastCall'.id = e.id
                   /\ lastCall'.step \in onStaff
                   /\ lastCall'.duration = (IF e.dragged # "" THEN e.dragged
                                            ELSE "quarter")
                   /\ lastCall'.pitch \in Range(list)
                   /\ \A i \in 0..(Len(list) - 1) :
                         (30 * i <= 4 * (e.y - 30) + 15
                            /\ 4 * (e.y - 30) + 15 < 30 * i + 30)
                           => lastCall'.pitch = list[i + 1]
                   /\ 2 * (e.y - 30) <= 0 => lastCall'.pitch = list[1]
                   /\ 2 * (e.y - 30) >= 15 * (Len(list) - 1)
                         => lastCall'.pitch = list[Len(list)]
                   /\ tracks' = AddNoteTracks(tracks, e.id, lastCall'.step,
                                              lastCall'.pitch, lastCall'.duration)
              ELSE /\ lastCall'.op # "addNote"
                   /\ tracks' = tracks]_vars

\* a drop below the bottom of a bass staff has added the lowest pitch of the
\* bass list at step 2 with the dragged duration
C40_Witness ==
    /\ lastCall = NoteCall("addNote", lastCall.id, 2, "C2", "half")
    /\ \E k \in DropsIn(lastOps) : lastOps[k].id = lastCall.id /\ lastOps[k].x = 25
    /\ \E i \in 1..Len(tracks) :
          /\ tracks[i].id = lastCall.id
          /\ tracks[i].instrument = "cello"
          /\ tracks[i].notes = <<[step |-> 2, pitch |-> "C2", duration |-> "half"]>>

====
